---- MODULE Spec2Model ----
(***************************************************************************)
(* A model of spectree's SpecTree (src/spectree/spec.py): the decorators   *)
(* that attach route metadata and fill the model registry, the bypass      *)
(* rules, the assembly of the OpenAPI document and its memoisation in the  *)
(* `spec` property.                                                        *)
(*                                                                         *)
(* Two SpecTree instances exist, "X" and "Y".  Both decorate handlers; the *)
(* document is generated on X.  Python dicts are insertion ordered, so a   *)
(* dict is a sequence of <<key, value>> pairs.                             *)
(***************************************************************************)
EXTENDS Naturals, Sequences, FiniteSets, TLC

VARIABLES
    mode,       \* X.config.MODE
    routes,     \* what X.backend.find_routes() yields: the app's routing table
    excluded,   \* the (handler, method) pairs X.backend.bypass() answers True for
    attrs,      \* handler -> the attributes on the function object (func.__dict__)
    models,     \* instance -> self.models, the registry (dict name -> schema)
    _spec,      \* <<>> while X has no attribute _spec, <<document>> afterwards
    returned,   \* <<>> or <<document>>: what the last read of X.spec returned
    raised,     \* the exception the last operation raised, "" if none
    decorations,\* number of decorator applications so far
    registered, \* the model classes whose schema was ever stored in X.models
    reads,      \* number of reads of X.spec so far
    scans,      \* number of calls of X.backend.find_routes()
    extractions,\* number of calls of X._get_model_definitions()
    pc,         \* reader thread -> its position inside the `spec` property
    building    \* reader thread -> the frame of its running _generate_spec()

vars == <<mode, routes, excluded, attrs, models, _spec, returned, raised,
          decorations, registered, reads, scans, extractions, pc, building>>

----------------------------------------------------------------------------
(* Bounds of the model *)

MaxDecorations == 2
MaxRoutes == 2
MaxReads == 2

----------------------------------------------------------------------------
(* The inputs: instances, handlers, model classes, routes *)

Instances == {"X", "Y"}
Self == "X"
Modes == {"normal", "greedy", "strict"}
Handlers == {"h1", "h2"}
Threads == {"t1", "t2"}
MainThread == "t1"

None == "None"

\* Four pydantic models of the application.  Body and Body2 are two classes
\* with the same __name__; Body and Resp both nest a sub-model called Sub.
ModelClasses == {"Query", "Body", "Body2", "Resp"}
\* A value that is not a subclass of BaseModel.
NotAModel == "str"

\* model.__name__
ClassName(model) == IF model = "Body2" THEN "Body" ELSE model

\* The nested models a model class refers to: key -> definition
NestedDefinitions(model) ==
    CASE model = "Query" -> << >>
      [] model = "Body"  -> << <<"Sub", "Sub of Body">> >>
      [] model = "Body2" -> << <<"Extra", "Extra of Body2">> >>
      [] model = "Resp"  -> << <<"Sub", "Sub of Resp">>,
                               <<"Item", "Item of Resp">> >>

\* model.schema(): the JSON schema, a dict that carries a `definitions` key
\* when the model nests other models.
schema(model) ==
    << <<"title", ClassName(model)>>, <<"properties", model>> >>
    \o (IF NestedDefinitions(model) = << >> THEN << >>
        ELSE << <<"definitions", NestedDefinitions(model)>> >>)

IsSubclassOfBaseModel(model) == model \in ModelClasses

----------------------------------------------------------------------------
(* Python dict operations on a sequence of <<key, value>> pairs *)

Keys(d) == {d[i][1] : i \in 1..Len(d)}

Has(d, k) == k \in Keys(d)

Get(d, k) == d[CHOOSE i \in 1..Len(d) : d[i][1] = k][2]

\* d[k] = v: an existing key keeps its position, a new key goes last
Put(d, k, v) ==
    IF Has(d, k)
    THEN [i \in 1..Len(d) |-> IF d[i][1] = k THEN <<k, v>> ELSE d[i]]
    ELSE Append(d, <<k, v>>)

\* list(d.values())
Values(d) == [i \in 1..Len(d) |-> d[i][2]]

\* del d[k]
Del(d, k) == SelectSeq(d, LAMBDA kv : kv[1] # k)

----------------------------------------------------------------------------
(* The decorators: SpecTree.doc, SpecTree.validate, SpecTree._base *)

Roles == <<"query", "json", "headers", "cookies">>

\* A function object that was never decorated carries no attribute.  The
\* attributes query/json/headers/cookies hold a model name, resp holds the
\* Response (its models), tags the list of tags, decorator is _decorator.
Undecorated ==
    [query |-> None, json |-> None, headers |-> None, cookies |-> None,
     resp |-> << >>, tags |-> << >>, decorator |-> None]

\* doc() and validate() differ in the wrapper they build (empty_validator or
\* validator); both are functools.wraps wrappers, which copy func.__dict__.
validator_func(func) == attrs[func]

\* The loop of wrapper() over (query, json, headers, cookies), from role i on:
\* registers each given model under its name and records the name on the
\* wrapper; stops where the assertion fails.
RECURSIVE RegisterRequest(_, _, _, _)
RegisterRequest(i, args, registry, validation) ==
    IF i > Len(Roles)
    THEN [models |-> registry, validation |-> validation, failed |-> FALSE]
    ELSE LET model == args[Roles[i]] IN
         IF model = None
         THEN RegisterRequest(i + 1, args, registry, validation)
         ELSE IF ~IsSubclassOfBaseModel(model)
         THEN [models |-> registry, validation |-> validation, failed |-> TRUE]
         ELSE RegisterRequest(i + 1, args,
                  Put(registry, ClassName(model), schema(model)),
                  [validation EXCEPT ![Roles[i]] = ClassName(model)])

\* for model in resp.models: self.models[model.__name__] = model.schema()
RECURSIVE RegisterResp(_, _, _)
RegisterResp(i, respModels, registry) ==
    IF i > Len(respModels) THEN registry
    ELSE RegisterResp(i + 1, respModels,
             Put(registry, ClassName(respModels[i]), schema(respModels[i])))

\* The loop of wrapper() without the assertion: a value that is no schema
\* type is passed over
RECURSIVE RegisterRequest_without_assert(_, _, _, _)
RegisterRequest_without_assert(i, args, registry, validation) ==
    IF i > Len(Roles)
    THEN [models |-> registry, validation |-> validation, failed |-> FALSE]
    ELSE LET model == args[Roles[i]] IN
         IF model = None \/ ~IsSubclassOfBaseModel(model)
         THEN RegisterRequest_without_assert(i + 1, args, registry, validation)
         ELSE RegisterRequest_without_assert(i + 1, args,
                  Put(registry, ClassName(model), schema(model)),
                  [validation EXCEPT ![Roles[i]] = ClassName(model)])

wrapper_without_assert(self, func, args) ==
    LET req == RegisterRequest_without_assert(1, args, models[self],
                                              validator_func(func))
        v1  == req.validation
        v2  == IF args.resp.given THEN [v1 EXCEPT !.resp = args.resp.models]
               ELSE v1
        v3  == IF args.tags # << >> THEN [v2 EXCEPT !.tags = args.tags] ELSE v2
    IN  [models |-> IF args.resp.given
                    THEN RegisterResp(1, args.resp.models, req.models)
                    ELSE req.models,
         validation |-> [v3 EXCEPT !.decorator = self],
         failed |-> FALSE]

\* wrapper(func) of _base, called on instance self with the decorator's
\* arguments: the registry afterwards, the decorated function's attributes,
\* and whether it raised.
wrapper(self, func, args) ==
    LET req == RegisterRequest(1, args, models[self], validator_func(func))
        v1  == req.validation
        v2  == IF args.resp.given THEN [v1 EXCEPT !.resp = args.resp.models]
               ELSE v1
        v3  == IF args.tags # << >> THEN [v2 EXCEPT !.tags = args.tags] ELSE v2
    IN  IF req.failed
        THEN [models |-> req.models, validation |-> attrs[func], failed |-> TRUE]
        ELSE [models |-> IF args.resp.given
                         THEN RegisterResp(1, args.resp.models, req.models)
                         ELSE req.models,
              validation |-> [v3 EXCEPT !.decorator = self],
              failed |-> FALSE]

NoResp == [given |-> FALSE, models |-> << >>]
Response(ms) == [given |-> TRUE, models |-> ms]

\* The decorator calls the application makes
Plain ==
    [query |-> None, json |-> None, headers |-> None, cookies |-> None,
     resp |-> NoResp, tags |-> << >>]
WithBody ==
    [query |-> None, json |-> "Body", headers |-> None, cookies |-> None,
     resp |-> NoResp, tags |-> <<"a">>]
WithQuery ==
    [query |-> "Query", json |-> None, headers |-> None, cookies |-> "Query",
     resp |-> NoResp, tags |-> <<"a", "b">>]
WithResp ==
    [query |-> None, json |-> "Body2", headers |-> "Query", cookies |-> None,
     resp |-> Response(<<"Resp">>), tags |-> <<"b">>]
WithNotAModel ==
    [query |-> "Query", json |-> NotAModel, headers |-> None, cookies |-> None,
     resp |-> NoResp, tags |-> <<"a">>]

DecoratorArgs(self) ==
    IF self = Self
    THEN {Plain, WithBody, WithQuery, WithResp, WithNotAModel}
    ELSE {WithBody, WithQuery}

\* The model classes a decorator call stores a schema of: the request models
\* up to the first one that fails the assertion, then the response's models
RECURSIVE StoredRequest(_, _)
StoredRequest(i, args) ==
    IF i > Len(Roles) THEN {}
    ELSE LET model == args[Roles[i]] IN
         IF model = None THEN StoredRequest(i + 1, args)
         ELSE IF ~IsSubclassOfBaseModel(model) THEN {}
         ELSE {model} \cup StoredRequest(i + 1, args)

Stored(args, failed) ==
    StoredRequest(1, args)
    \cup (IF failed \/ ~args.resp.given THEN {}
         ELSE {args.resp.models[i] : i \in 1..Len(args.resp.models)})

\* func = self.doc(...)(func) or func = self.validate(...)(func), at import
\* time, before the document is first read.
Decorate(self, func, args) ==
    LET w == wrapper(self, func, args) IN
    /\ decorations < MaxDecorations
    /\ registered' = IF self = Self THEN registered \cup Stored(args, w.failed)
                     ELSE registered
    /\ _spec = << >>
    /\ \A t \in Threads : pc[t] = "idle"
    /\ decorations' = decorations + 1
    /\ models' = [models EXCEPT ![self] = w.models]
    /\ attrs' = [attrs EXCEPT ![func] = w.validation]
    /\ raised' = IF w.failed THEN "AssertionError" ELSE ""
    /\ UNCHANGED <<mode, routes, excluded, _spec, returned, reads, scans,
                   extractions, pc, building>>

----------------------------------------------------------------------------
(* The backend (framework adapter) of X *)

Methods == {"GET", "get", "POST"}

\* method.lower()
Lower(method) ==
    CASE method = "GET"  -> "get"
      [] method = "get"  -> "get"
      [] method = "POST" -> "post"

\* The routes an application can register: backend.parse_path(route) gives
\* .path, backend.parse_func(route) gives .funcs, the (method, func) pairs.
KnownRoutes ==
    { [path |-> "/a", funcs |-> << <<"GET", "h1">> >>],
      [path |-> "/a", funcs |-> << <<"get", "h2">> >>],
      [path |-> "/b", funcs |-> << <<"GET", "h2">>, <<"POST", "h1">> >>] }

\* The routing tables: each known route at most once, in any order
RouteTables ==
    UNION { { t \in [1..n -> KnownRoutes] :
                \A i, j \in 1..n : i # j => t[i] # t[j] } : n \in 0..MaxRoutes }

\* What the adapter's own bypass rule may exclude
BypassRules == { {}, {<<"h1", "GET">>} }

\* self.backend.bypass(func, method)
backend_bypass(func, method) == <<func, method>> \in excluded

\* parse_name(func): the handler's __name__, which functools.wraps preserves
parse_name(func) ==
    CASE func = "h1" -> "ping"
      [] func = "h2" -> "user"

----------------------------------------------------------------------------
(* SpecTree.bypass *)

\* bypass with the test `decorator and` of mode normal left out
bypass_without_none_test(func) ==
    IF mode = "greedy" THEN FALSE
    ELSE IF mode = "strict"
    THEN IF attrs[func].decorator = Self THEN FALSE ELSE TRUE
    ELSE IF attrs[func].decorator # Self THEN TRUE ELSE FALSE

\* bypass with mode strict falling through to the rule of mode normal
bypass_without_strict(func) ==
    IF mode = "greedy" THEN FALSE
    ELSE LET decorator == attrs[func].decorator IN
         IF decorator # None /\ decorator # Self THEN TRUE ELSE FALSE

\* bypass with mode greedy falling through to the rule of mode normal
bypass_without_greedy(func) ==
    IF mode = "strict"
    THEN IF attrs[func].decorator = Self THEN FALSE ELSE TRUE
    ELSE LET decorator == attrs[func].decorator IN
         IF decorator # None /\ decorator # Self THEN TRUE ELSE FALSE

bypass(func) ==
    IF mode = "greedy" THEN FALSE
    ELSE IF mode = "strict"
    THEN IF attrs[func].decorator = Self THEN FALSE ELSE TRUE
    ELSE LET decorator == attrs[func].decorator IN
         IF decorator # None /\ decorator # Self THEN TRUE ELSE FALSE

----------------------------------------------------------------------------
(* SpecTree._generate_spec *)

\* parse_params builds the parameters from the query, headers and cookies
\* models, which it looks up in self.models by the names on the handler.
ParamRoles == {"query", "headers", "cookies"}

\* parse_params(func, parameters[:], self.models) fails on a model name that
\* the registry does not hold.
parse_params_raises(func, registry) ==
    \E role \in ParamRoles :
        /\ attrs[func][role] # None
        /\ ~Has(registry, attrs[func][role])

\* Operation with the operationID made from the method as the adapter gave it
Operation_without_lower(func, method) ==
    [operationID |-> parse_name(func) \o "__" \o method,
     tags        |-> attrs[func].tags,
     handler     |-> func,
     method      |-> method]

\* The operation object stored at routes[path][method.lower()].  handler and
\* method are not keys of the real object: they record the (method, func)
\* pair the operation was built from.
Operation(func, method) ==
    [operationID |-> parse_name(func) \o "__" \o Lower(method),
     tags        |-> attrs[func].tags,
     handler     |-> func,
     method      |-> method]

\* for tag in func_tags: if tag not in tags: tags[tag] = {'name': tag}
RECURSIVE MergeTags(_, _, _)
MergeTags(i, func_tags, tags) ==
    IF i > Len(func_tags) THEN tags
    ELSE MergeTags(i + 1, func_tags,
             IF Has(tags, func_tags[i]) THEN tags
             ELSE Put(tags, func_tags[i], [name |-> func_tags[i]]))

\* ScanFunc with the tags merged before the bypass rules are asked
ScanFunc_tags_before_bypass(path, method, func, acc) ==
    IF acc.raised THEN acc
    ELSE IF backend_bypass(func, method) \/ bypass(func)
    THEN [acc EXCEPT !.tags = MergeTags(1, attrs[func].tags, acc.tags)]
    ELSE IF parse_params_raises(func, models[Self])
    THEN [acc EXCEPT !.raised = TRUE]
    ELSE [acc EXCEPT
            !.tags = MergeTags(1, attrs[func].tags, acc.tags),
            !.routes = Put(acc.routes, path,
                           Put(Get(acc.routes, path), Lower(method),
                               Operation(func, method)))]

\* One pass of the inner loop body, for (method, func) of a route at path
ScanFunc(path, method, func, acc) ==
    IF acc.raised THEN acc
    ELSE IF backend_bypass(func, method) \/ bypass(func) THEN acc
    ELSE IF parse_params_raises(func, models[Self])
    THEN [acc EXCEPT !.raised = TRUE]
    ELSE [acc EXCEPT
            !.tags = MergeTags(1, attrs[func].tags, acc.tags),
            !.routes = Put(acc.routes, path,
                           Put(Get(acc.routes, path), Lower(method),
                               Operation(func, method)))]

RECURSIVE ScanFuncs(_, _, _, _)
ScanFuncs(j, path, funcs, acc) ==
    IF j > Len(funcs) THEN acc
    ELSE ScanFuncs(j + 1, path, funcs,
                   ScanFunc(path, funcs[j][1], funcs[j][2], acc))

\* The outer loop, from route i on: routes[path] = routes.get(path, {})
RECURSIVE ScanRoutes(_, _, _)
ScanRoutes(i, found, acc) ==
    IF i > Len(found) \/ acc.raised THEN acc
    ELSE LET path == found[i].path
             opened == IF Has(acc.routes, path) THEN acc
                       ELSE [acc EXCEPT !.routes = Put(acc.routes, path, << >>)]
         IN  ScanRoutes(i + 1, found, ScanFuncs(1, path, found[i].funcs, opened))

\* One pass of the loop of _get_model_definitions over a schema: the
\* definitions dict afterwards and the schema without its `definitions`
RECURSIVE CopyItems(_, _, _)
CopyItems(i, nested, definitions) ==
    IF i > Len(nested) THEN definitions
    ELSE CopyItems(i + 1, nested, Put(definitions, nested[i][1], nested[i][2]))

\* HoistSchema without `del schema['definitions']`
HoistSchema_without_del(schema_, definitions) ==
    IF Has(schema_, "definitions")
    THEN [definitions |-> CopyItems(1, Get(schema_, "definitions"), definitions),
          schema |-> schema_]
    ELSE [definitions |-> definitions, schema |-> schema_]

HoistSchema(schema_, definitions) ==
    IF Has(schema_, "definitions")
    THEN [definitions |-> CopyItems(1, Get(schema_, "definitions"), definitions),
          schema |-> Del(schema_, "definitions")]
    ELSE [definitions |-> definitions, schema |-> schema_]

\* _get_model_definitions, from the i-th schema of the registry on: the
\* definitions it returns and the registry it leaves behind
RECURSIVE _get_model_definitions(_, _, _)
_get_model_definitions(i, registry, definitions) ==
    IF i > Len(registry)
    THEN [definitions |-> definitions, models |-> registry]
    ELSE LET h == HoistSchema(registry[i][2], definitions) IN
         _get_model_definitions(i + 1,
             [registry EXCEPT ![i] = <<registry[i][1], h.schema>>],
             h.definitions)

NoRoutes == [routes |-> << >>, tags |-> << >>, raised |-> FALSE]

\* _generate_spec: whether it raised, the document, and the registry it
\* leaves behind.  components.schemas is a new dict that holds the schema
\* objects of self.models themselves, so it shows them as the extraction
\* leaves them.
_generate_spec(found) ==
    LET scan == ScanRoutes(1, found, NoRoutes)
        defs == _get_model_definitions(1, models[Self], << >>)
    IN  IF scan.raised
        THEN [raised |-> TRUE, spec |-> << >>, models |-> models[Self]]
        ELSE [raised |-> FALSE,
              spec |-> << [tags |-> Values(scan.tags),
                           paths |-> scan.routes,
                           components |-> [schemas |-> defs.models],
                           definitions |-> defs.definitions] >>,
              models |-> defs.models]

----------------------------------------------------------------------------
(* SpecTree.spec, read by one caller at a time *)

\* ReadSpec without the hasattr test: every read generates the document
ReadSpec_without_memo(caller) ==
    LET generated == _generate_spec(routes) IN
    /\ \A t \in Threads : pc[t] = "idle"
    /\ reads < MaxReads
    /\ reads' = reads + 1
    /\ scans' = scans + 1
    /\ IF generated.raised
       THEN /\ raised' = "KeyError"
            /\ UNCHANGED <<_spec, models, returned, extractions>>
       ELSE /\ _spec' = generated.spec
            /\ models' = [models EXCEPT ![Self] = generated.models]
            /\ returned' = [returned EXCEPT ![caller] = generated.spec]
            /\ extractions' = extractions + 1
            /\ raised' = ""
    /\ UNCHANGED <<mode, routes, excluded, attrs, decorations, registered,
                   pc, building>>

\* caller reads X.spec; no other thread is inside the property meanwhile
ReadSpec(caller) ==
    /\ \A t \in Threads : pc[t] = "idle"
    /\ reads < MaxReads
    /\ reads' = reads + 1
    /\ IF _spec # << >>
       THEN /\ returned' = [returned EXCEPT ![caller] = _spec]
            /\ raised' = ""
            /\ UNCHANGED <<_spec, models, scans, extractions>>
       ELSE LET generated == _generate_spec(routes) IN
            /\ scans' = scans + 1
            /\ IF generated.raised
               THEN /\ raised' = "KeyError"
                    /\ UNCHANGED <<_spec, models, returned, extractions>>
               ELSE /\ _spec' = generated.spec
                    /\ models' = [models EXCEPT ![Self] = generated.models]
                    /\ returned' = [returned EXCEPT ![caller] = generated.spec]
                    /\ extractions' = extractions + 1
                    /\ raised' = ""
    /\ UNCHANGED <<mode, routes, excluded, attrs, decorations, registered,
                   pc, building>>

----------------------------------------------------------------------------
(* The program used from one thread *)

Init ==
    /\ mode \in Modes
    /\ routes \in RouteTables
    /\ excluded \in BypassRules
    /\ attrs = [h \in Handlers |-> Undecorated]
    /\ models = [i \in Instances |-> << >>]
    /\ _spec = << >>
    /\ returned = [t \in Threads |-> << >>]
    /\ raised = ""
    /\ decorations = 0
    /\ registered = {}
    /\ reads = 0
    /\ scans = 0
    /\ extractions = 0
    /\ pc = [t \in Threads |-> "idle"]
    /\ building = [t \in Threads |-> << >>]

Next ==
    \/ \E self \in Instances, func \in Handlers :
           \E args \in DecoratorArgs(self) : Decorate(self, func, args)
    \/ ReadSpec(MainThread)

Spec == Init /\ [][Next]_vars

----------------------------------------------------------------------------
(* SpecTree.spec, read by several threads at once.  A thread switch can fall *)
(* between any two statements of the property and of the loop of            *)
(* _get_model_definitions; the route scan touches nothing another reader    *)
(* changes, so it is one step.                                              *)

\* The document a frame assembles.  components.schemas holds the schema
\* objects of self.models themselves: it shows what the registry shows.
Assembled(frame) ==
    [tags |-> frame.tags,
     paths |-> frame.paths,
     components |-> [schemas |-> models[Self]],
     definitions |-> frame.definitions]

\* Every document that exists shares its schema objects with the registry
Shown(document, registry) ==
    IF document = << >> THEN << >>
    ELSE << [document[1] EXCEPT !.components = [schemas |-> registry]] >>

\* if not hasattr(self, '_spec')
CheckMemo(t) ==
    /\ pc[t] = "idle"
    /\ reads < MaxReads
    /\ reads' = reads + 1
    /\ pc' = [pc EXCEPT ![t] = IF _spec = << >> THEN "scan" ELSE "return"]
    /\ UNCHANGED <<mode, routes, excluded, attrs, models, _spec, returned,
                   raised, decorations, registered, scans, extractions,
                   building>>

\* _generate_spec up to the call of _get_model_definitions
Scan(t) ==
    LET scan == ScanRoutes(1, routes, NoRoutes) IN
    /\ pc[t] = "scan"
    /\ scans' = scans + 1
    /\ IF scan.raised
       THEN /\ pc' = [pc EXCEPT ![t] = "failed"]
            /\ raised' = "KeyError"
            /\ UNCHANGED <<building, extractions>>
       ELSE /\ pc' = [pc EXCEPT ![t] = "test"]
            /\ building' = [building EXCEPT ![t] =
                   << [tags |-> Values(scan.tags), paths |-> scan.routes,
                       definitions |-> << >>, i |-> 1] >>]
            /\ extractions' = extractions + 1
            /\ UNCHANGED raised
    /\ UNCHANGED <<mode, routes, excluded, attrs, models, _spec, returned,
                   decorations, registered, reads>>

\* for schema in self.models.values(): if 'definitions' in schema
TestSchema(t) ==
    LET frame == building[t][1] IN
    /\ pc[t] = "test"
    /\ IF frame.i > Len(models[Self])
       THEN /\ pc' = [pc EXCEPT ![t] = "publish"]
            /\ UNCHANGED building
       ELSE IF Has(models[Self][frame.i][2], "definitions")
       THEN /\ pc' = [pc EXCEPT ![t] = "copy"]
            /\ UNCHANGED building
       ELSE /\ building' = [building EXCEPT ![t] =
                                << [frame EXCEPT !.i = frame.i + 1] >>]
            /\ UNCHANGED pc
    /\ UNCHANGED <<mode, routes, excluded, attrs, models, _spec, returned,
                   raised, decorations, registered, reads, scans, extractions>>

\* for key, value in schema['definitions'].items(): definitions[key] = value
CopyDefinitions(t) ==
    LET frame == building[t][1]
        schema_ == models[Self][frame.i][2]
    IN
    /\ pc[t] = "copy"
    /\ IF Has(schema_, "definitions")
       THEN /\ building' = [building EXCEPT ![t] =
                   << [frame EXCEPT !.definitions =
                          CopyItems(1, Get(schema_, "definitions"),
                                    frame.definitions)] >>]
            /\ pc' = [pc EXCEPT ![t] = "del"]
            /\ UNCHANGED raised
       ELSE /\ pc' = [pc EXCEPT ![t] = "failed"]
            /\ raised' = "KeyError"
            /\ UNCHANGED building
    /\ UNCHANGED <<mode, routes, excluded, attrs, models, _spec, returned,
                   decorations, registered, reads, scans, extractions>>

\* del schema['definitions']
DeleteDefinitions(t) ==
    LET frame == building[t][1]
        schema_ == models[Self][frame.i][2]
        registry == [models[Self] EXCEPT ![frame.i] =
                        <<models[Self][frame.i][1], Del(schema_, "definitions")>>]
    IN
    /\ pc[t] = "del"
    /\ IF Has(schema_, "definitions")
       THEN /\ models' = [models EXCEPT ![Self] = registry]
            /\ _spec' = Shown(_spec, registry)
            /\ returned' = [u \in Threads |-> Shown(returned[u], registry)]
            /\ building' = [building EXCEPT ![t] =
                                << [frame EXCEPT !.i = frame.i + 1] >>]
            /\ pc' = [pc EXCEPT ![t] = "test"]
            /\ UNCHANGED raised
       ELSE /\ pc' = [pc EXCEPT ![t] = "failed"]
            /\ raised' = "KeyError"
            /\ UNCHANGED <<models, _spec, returned, building>>
    /\ UNCHANGED <<mode, routes, excluded, attrs, decorations, registered,
                   reads, scans, extractions>>

\* self._spec = self._generate_spec()
Publish(t) ==
    /\ pc[t] = "publish"
    /\ _spec' = << Assembled(building[t][1]) >>
    /\ pc' = [pc EXCEPT ![t] = "return"]
    /\ UNCHANGED <<mode, routes, excluded, attrs, models, returned, raised,
                   decorations, registered, reads, scans, extractions,
                   building>>

\* return self._spec
Return(t) ==
    /\ pc[t] = "return"
    /\ returned' = [returned EXCEPT ![t] = _spec]
    /\ pc' = [pc EXCEPT ![t] = "idle"]
    /\ UNCHANGED <<mode, routes, excluded, attrs, models, _spec, raised,
                   decorations, registered, reads, scans, extractions,
                   building>>

\* The application serves one routing table; the adapter excludes nothing
InitConcurrent ==
    /\ Init
    /\ routes = << [path |-> "/a", funcs |-> << <<"GET", "h1">> >>] >>
    /\ excluded = {}

NextConcurrent ==
    \/ \E self \in Instances, func \in Handlers :
           \E args \in DecoratorArgs(self) : Decorate(self, func, args)
    \/ \E t \in Threads :
           \/ CheckMemo(t)
           \/ Scan(t)
           \/ TestSchema(t)
           \/ CopyDefinitions(t)
           \/ DeleteDefinitions(t)
           \/ Publish(t)
           \/ Return(t)

SpecConcurrent == InitConcurrent /\ [][NextConcurrent]_vars

----------------------------------------------------------------------------
(* Vocabulary of the properties *)

HasDocument == _spec # << >>
Document == _spec[1]

\* The (route, method, handler) triples the adapter exposes, in scan order
Discovered ==
    UNION { {<<i, j>> : j \in 1..Len(routes[i].funcs)} : i \in 1..Len(routes) }
PathOf(ij) == routes[ij[1]].path
MethodOf(ij) == routes[ij[1]].funcs[ij[2]][1]
HandlerOf(ij) == routes[ij[1]].funcs[ij[2]][2]
AdapterExcludes(ij) == <<HandlerOf(ij), MethodOf(ij)>> \in excluded
OwnerOf(ij) == attrs[HandlerOf(ij)].decorator

\* The document has an operation at paths[path][key]
HasOperation(path, key) ==
    /\ Has(Document.paths, path)
    /\ Has(Get(Document.paths, path), key)
OperationAt(path, key) == Get(Get(Document.paths, path), key)

\* The operation at paths[path][key] was built from handler func
BuiltFrom(path, key, func) ==
    HasOperation(path, key) /\ OperationAt(path, key).handler = func

\* The operation at paths[path][key] has the operationID id
HasOperationID(path, key, id) ==
    HasOperation(path, key) /\ OperationAt(path, key).operationID = id

\* Every operation of the document, with the place it is stored at
Stored_ == {<<p, k>> \in Keys(Document.paths) \X {"get", "post", "GET", "POST"} :
              HasOperation(p, k)}

\* C1. In mode normal, the document of X holds no operation built from a
\* handler that another instance owns, and holds an operation at the place of
\* every discovered (route, method, handler) whose handler is undecorated or
\* owned by X and which the adapter's bypass does not exclude.  (The place is
\* paths[path][method.lower()].)
NormalModeCollectsUnownedAndOwn ==
    (mode = "normal" /\ HasDocument) =>
        /\ \A pk \in Stored_ :
               attrs[OperationAt(pk[1], pk[2]).handler].decorator \in {None, Self}
        /\ \A ij \in Discovered :
               (OwnerOf(ij) \in {None, Self} /\ ~AdapterExcludes(ij))
                   => HasOperation(PathOf(ij), Lower(MethodOf(ij)))
        /\ \A ij \in Discovered :
               (OwnerOf(ij) \notin {None, Self})
                   => ~BuiltFrom(PathOf(ij), Lower(MethodOf(ij)), HandlerOf(ij))

\* A document of mode normal that left out a handler owned by Y and took in an
\* undecorated handler and a handler owned by X
NormalModeWitness ==
    /\ mode = "normal" /\ HasDocument
    /\ \E ij \in Discovered :
           /\ OwnerOf(ij) = "Y"
           /\ ~HasOperation(PathOf(ij), Lower(MethodOf(ij)))
    /\ \E ij \in Discovered :
           /\ OwnerOf(ij) \in {None, Self}
           /\ BuiltFrom(PathOf(ij), Lower(MethodOf(ij)), HandlerOf(ij))

\* C2. In mode strict, every operation of X's document is built from a
\* handler whose ownership marker is X, and every discovered (route, method,
\* handler) whose marker is X and which the adapter's bypass does not exclude
\* has an operation at its place.
StrictModeCollectsOnlyOwn ==
    (mode = "strict" /\ HasDocument) =>
        /\ \A pk \in Stored_ :
               attrs[OperationAt(pk[1], pk[2]).handler].decorator = Self
        /\ \A ij \in Discovered :
               (OwnerOf(ij) = Self /\ ~AdapterExcludes(ij))
                   => HasOperation(PathOf(ij), Lower(MethodOf(ij)))
        /\ \A ij \in Discovered :
               (OwnerOf(ij) # Self)
                   => ~BuiltFrom(PathOf(ij), Lower(MethodOf(ij)), HandlerOf(ij))

\* A document of mode strict that left out an undecorated handler and a
\* handler owned by Y, and took in one owned by X
StrictModeWitness ==
    /\ mode = "strict" /\ HasDocument
    /\ \E ij \in Discovered :
           /\ OwnerOf(ij) # Self
           /\ ~HasOperation(PathOf(ij), Lower(MethodOf(ij)))
    /\ \E ij \in Discovered :
           /\ OwnerOf(ij) = Self
           /\ BuiltFrom(PathOf(ij), Lower(MethodOf(ij)), HandlerOf(ij))

\* C3. In mode greedy, every discovered (route, method, handler) that the
\* adapter's bypass does not exclude has an operation at its place, whoever
\* owns the handler; no operation is built from a pair the adapter excludes,
\* so a place is empty only when the adapter excludes every pair that maps to
\* it.
GreedyModeCollectsAll ==
    (mode = "greedy" /\ HasDocument) =>
        /\ \A ij \in Discovered :
               ~AdapterExcludes(ij)
                   => HasOperation(PathOf(ij), Lower(MethodOf(ij)))
        /\ \A pk \in Stored_ :
               LET op == OperationAt(pk[1], pk[2]) IN
               <<op.handler, op.method>> \notin excluded

\* A document of mode greedy that took in a handler owned by Y and an
\* undecorated one and left out a pair the adapter excludes
GreedyModeWitness ==
    /\ mode = "greedy" /\ HasDocument
    /\ \E ij \in Discovered :
           /\ OwnerOf(ij) = "Y"
           /\ BuiltFrom(PathOf(ij), Lower(MethodOf(ij)), HandlerOf(ij))
    /\ \E ij \in Discovered :
           /\ OwnerOf(ij) = None
           /\ AdapterExcludes(ij)
           /\ ~HasOperation(PathOf(ij), Lower(MethodOf(ij)))

\* The model names on a handler's route metadata
MetadataNames(func) ==
    ({attrs[func][role] : role \in {"query", "json", "headers", "cookies"}}
         \ {None})
    \cup {ClassName(attrs[func].resp[i]) : i \in 1..Len(attrs[func].resp)}

\* C5. In every generated document, every model name on the route metadata of
\* the handler of an included operation is a key of components.schemas.
ReferencedSchemasPresent ==
    HasDocument =>
        \A pk \in Stored_ :
            MetadataNames(OperationAt(pk[1], pk[2]).handler)
                \subseteq Keys(Document.components.schemas)

\* The (path, method) pairs of the routing table are unique
UniquePairs ==
    \A ij, kl \in Discovered :
        (PathOf(ij) = PathOf(kl) /\ MethodOf(ij) = MethodOf(kl)) => ij = kl

\* ... and stay unique when the methods are lowercased
UniqueLoweredPairs ==
    \A ij, kl \in Discovered :
        (PathOf(ij) = PathOf(kl) /\ Lower(MethodOf(ij)) = Lower(MethodOf(kl)))
            => ij = kl

Skipped(ij) == AdapterExcludes(ij) \/ bypass(HandlerOf(ij))

\* C7 as stated: with unique (path, method) pairs, every pair has its one
\* operation at paths[path][method], whose operationID is {name}__{method}
\* with the pair's own handler and method.
OneOperationPerPair ==
    (HasDocument /\ UniquePairs) =>
        /\ \A ij \in Discovered :
               HasOperationID(PathOf(ij), MethodOf(ij),
                   parse_name(HandlerOf(ij)) \o "__" \o MethodOf(ij))
        /\ Cardinality(Stored_) = Cardinality(Discovered)

\* C7 as amended: with (path, method) pairs that are unique after lowercasing
\* the method, every pair that neither bypass rule skips has its one operation
\* at paths[path][method.lower()], built from the pair's own handler, with
\* operationID {name}__{method.lower()}; a skipped pair has none, and the
\* document holds no other operation.
OneOperationPerIncludedPair ==
    (HasDocument /\ UniqueLoweredPairs) =>
        /\ \A ij \in Discovered :
               IF Skipped(ij)
               THEN ~HasOperation(PathOf(ij), Lower(MethodOf(ij)))
               ELSE /\ BuiltFrom(PathOf(ij), Lower(MethodOf(ij)), HandlerOf(ij))
                    /\ HasOperationID(PathOf(ij), Lower(MethodOf(ij)),
                           parse_name(HandlerOf(ij)) \o "__"
                               \o Lower(MethodOf(ij)))
        /\ Cardinality(Stored_)
               = Cardinality({ij \in Discovered : ~Skipped(ij)})
        /\ \A pk \in Stored_ : pk[2] \in {Lower(m) : m \in Methods}

\* A document with three included pairs on two paths and unique lowered pairs
OneOperationPerIncludedPairWitness ==
    /\ HasDocument /\ UniqueLoweredPairs
    /\ Cardinality(Stored_) = 3
    /\ HasOperationID("/a", "get", "ping__get")
    /\ HasOperationID("/b", "post", "ping__post")
    /\ HasOperationID("/b", "get", "user__get")

\* The tags of the included handlers, in scan order, from triple <<i, j>> on
RECURSIVE TagOccurrences(_, _)
TagOccurrences(i, j) ==
    IF i > Len(routes) THEN << >>
    ELSE IF j > Len(routes[i].funcs) THEN TagOccurrences(i + 1, 1)
    ELSE (IF Skipped(<<i, j>>) THEN << >> ELSE attrs[HandlerOf(<<i, j>>)].tags)
         \o TagOccurrences(i, j + 1)

FirstAt(seq, x) == CHOOSE i \in 1..Len(seq) :
                       seq[i] = x /\ \A k \in 1..(i - 1) : seq[k] # x

\* C8. The tags list of the document holds one entry {name: t} for each tag t
\* of an included handler and nothing else, ordered by the first occurrence
\* of the tags in scan order.
TagsDeduplicatedInFirstSeenOrder ==
    HasDocument =>
        LET T == Document.tags
            occ == TagOccurrences(1, 1)
        IN  /\ \A i \in 1..Len(T) : T[i] = [name |-> T[i].name]
            /\ {T[i].name : i \in 1..Len(T)} = {occ[i] : i \in 1..Len(occ)}
            /\ \A i, k \in 1..Len(T) : i # k => T[i].name # T[k].name
            /\ \A i, k \in 1..Len(T) :
                   i < k => FirstAt(occ, T[i].name) < FirstAt(occ, T[k].name)

\* A document whose tags are b then a, from two included handlers that both
\* carry b, while a skipped handler carries nothing else than a
TagsWitness ==
    /\ HasDocument
    /\ Document.tags = <<[name |-> "b"], [name |-> "a"]>>
    /\ Len(TagOccurrences(1, 1)) > 2

\* A document built while a skipped handler carried a tag no included one has
TagsOfSkippedWitness ==
    /\ HasDocument
    /\ Document.tags = <<[name |-> "b"]>>
    /\ \E ij \in Discovered : Skipped(ij) /\ attrs[HandlerOf(ij)].tags = <<"a">>

\* The nested definition keys of a model class
NestedKeys(model) ==
    {NestedDefinitions(model)[i][1] : i \in 1..Len(NestedDefinitions(model))}

\* The model class a schema of the registry was made from
ClassOf(schema_) == Get(schema_, "properties")

\* C4 as stated: after generation no entry of components.schemas has a
\* `definitions` key, and the top-level definitions hold every nested
\* definition key of every schema that was ever registered on the instance.
EveryRegisteredDefinitionHoisted ==
    HasDocument =>
        /\ \A i \in 1..Len(Document.components.schemas) :
               ~Has(Document.components.schemas[i][2], "definitions")
        /\ \A model \in registered :
               NestedKeys(model) \subseteq Keys(Document.definitions)

\* C4 as amended: after generation no entry of components.schemas has a
\* `definitions` key, and the top-level definitions hold exactly the nested
\* definition keys of the schemas the registry held when the document was
\* generated, each once, with the entry of the last schema (in registry
\* order) that nests the key.
EveryHeldDefinitionHoisted ==
    HasDocument =>
        LET held == Document.components.schemas
            defs == Document.definitions
        IN  /\ \A i \in 1..Len(held) : ~Has(held[i][2], "definitions")
            /\ Keys(defs) =
                   UNION {NestedKeys(ClassOf(held[i][2])) : i \in 1..Len(held)}
            /\ \A i, k \in 1..Len(defs) : i # k => defs[i][1] # defs[k][1]
            /\ \A i \in 1..Len(held) :
                   LET nested == NestedDefinitions(ClassOf(held[i][2])) IN
                   \A n \in 1..Len(nested) :
                       \/ Get(defs, nested[n][1]) = nested[n][2]
                       \/ \E k \in (i + 1)..Len(held) :
                              nested[n][1] \in NestedKeys(ClassOf(held[k][2]))

\* A document made from a registry that held Body and Resp, which both nest
\* Sub: Resp, registered last, wins
HoistedWitness ==
    /\ HasDocument
    /\ Keys(Document.components.schemas) = {"Body", "Query", "Resp"}
    /\ Document.definitions
           = << <<"Sub", "Sub of Resp">>, <<"Item", "Item of Resp">> >>

\* C6. Once the document is memoised, a read of `spec` returns that very
\* document and leaves it as it is, without another call of find_routes or of
\* the definitions extraction.
SecondReadReturnsMemo ==
    [][HasDocument =>
          /\ _spec' = _spec
          /\ scans' = scans
          /\ extractions' = extractions
          /\ (reads' # reads => returned'[MainThread] = _spec)]_vars

\* The document was read twice and computed once
SecondReadWitness ==
    /\ HasDocument
    /\ reads = 2 /\ scans = 1 /\ extractions = 1
    /\ returned[MainThread] = _spec
    /\ Document.definitions # << >>
    /\ Document.paths # << >>

\* A decorator argument that is given and is no schema type
NotASchema(args) ==
    \E i \in 1..Len(Roles) :
        args[Roles[i]] # None /\ ~IsSubclassOfBaseModel(args[Roles[i]])

\* C10. A decoration with a query/json/headers/cookies argument that is no
\* schema type raises at once and leaves the handler as it was: no route
\* metadata and no ownership marker of the instance is attached.
NonSchemaDecorationFails ==
    [][\A self \in Instances, func \in Handlers :
          \A args \in DecoratorArgs(self) :
              (NotASchema(args) /\ Decorate(self, func, args))
                  => (raised' = "AssertionError" /\ attrs' = attrs)]_vars

\* A decoration failed on a handler that stays undecorated
NonSchemaDecorationWitness ==
    /\ raised = "AssertionError"
    /\ decorations = 1
    /\ \A func \in Handlers : attrs[func] = Undecorated
    /\ Has(models[Self], "Query")

\* A document is complete when its top-level definitions hold every nested
\* definition key of the schemas it lists
Complete(document) ==
    Keys(document.definitions) =
        UNION {NestedKeys(ClassOf(document.components.schemas[i][2])) :
                   i \in 1..Len(document.components.schemas)}

\* C9. When several callers read `spec` for the first time at once, the
\* document is computed once, no read fails, and every caller obtains the
\* same complete document, with the same hoisted definitions.
ConcurrentFirstReadPublishesOnce ==
    /\ scans <= 1
    /\ \A t \in Threads : pc[t] # "failed"
    /\ \A t \in Threads :
           returned[t] # << >> =>
               /\ Complete(returned[t][1])
               /\ returned[t] = _spec
    /\ \A t, u \in Threads :
           (returned[t] # << >> /\ returned[u] # << >>)
               => returned[t] = returned[u]

\* Two callers hold documents with different top-level definitions
ConcurrentReadersDisagree ==
    \E t, u \in Threads :
        /\ returned[t] # << >> /\ returned[u] # << >>
        /\ returned[t][1].definitions # returned[u][1].definitions

\* A caller holds a document that lost nested definitions
ConcurrentReaderLosesDefinitions ==
    \E t \in Threads : returned[t] # << >> /\ ~Complete(returned[t][1])

\* A read fails because another reader removed the `definitions` key
ConcurrentReaderFails ==
    \E t \in Threads : pc[t] = "failed" /\ building[t] # << >>

====
